---- MODULE Spec2Model ----
(***************************************************************************)
(* Bubble-point sweep of src/Ant.py (heptane/octane, Raoult + Antoine).   *)
(*                                                                         *)
(* Floating-point values are modelled as signed decimal fixed-point        *)
(* numbers: an arbitrary-precision magnitude (little-endian limbs in base  *)
(* 10^4) counted in units of 10^-20.  Every arithmetic operation rounds    *)
(* to the nearest unit, so each operation is at least as accurate as the   *)
(* float64 operation it stands for.                                        *)
(***************************************************************************)
EXTENDS Integers, Sequences, FiniteSets, TLC

\* ------------------------------------------------------------------------
\* Magnitudes: sequences of limbs, least significant first, no high zeros.
\* ------------------------------------------------------------------------
BASE == 10000
FRAC == 5

Max(a, b) == IF a >= b THEN a ELSE b
Min(a, b) == IF a <= b THEN a ELSE b

\* F applied to the value of e (e is evaluated once, before F)
Bind(e, F(_)) == CHOOSE r \in {F(t) : t \in {e}} : TRUE

Limb(a, i) == IF i >= 1 /\ i <= Len(a) THEN a[i] ELSE 0

TopIdx(a) ==
  LET nz == {i \in 1..Len(a) : a[i] # 0}
  IN  IF nz = {} THEN 0 ELSE CHOOSE i \in nz : \A j \in nz : j <= i

Trim(a) == Bind(a \o << >>, LAMBDA t : SubSeq(t, 1, TopIdx(t)))

\* Columns 0 <= c[i] <= 2*BASE - 2: the carry into column i is 1 when a
\* lower column overflows and every column in between is BASE - 1.
CarryIn(c, i) ==
  \E j \in 1..(i - 1) : c[j] >= BASE /\ \A k \in (j + 1)..(i - 1) : c[k] = BASE - 1

Ripple(c) ==
  Bind(c \o << >>, LAMBDA t :
    Trim([i \in 1..(Len(t) + 1) |->
            (Limb(t, i) + (IF CarryIn(t, i) THEN 1 ELSE 0)) % BASE]))

\* Columns -BASE < d[i] < BASE of a difference that is not negative: the
\* borrow into column i is 1 when a lower column is negative and every
\* column in between is 0.
BorrowIn(d, i) ==
  \E j \in 1..(i - 1) : d[j] < 0 /\ \A k \in (j + 1)..(i - 1) : d[k] = 0

Unborrow(d) ==
  Bind(d \o << >>, LAMBDA t :
    Trim([i \in 1..Len(t) |-> (t[i] - (IF BorrowIn(t, i) THEN 1 ELSE 0)) % BASE]))

\* One round of carrying: each column keeps its low limb and receives the
\* high part of the column below.  Three rounds bring columns below 2^31
\* down to at most BASE.
Squeeze1(c, i) == (Limb(c, i) % BASE) + (Limb(c, i - 1) \div BASE)
Squeeze2(c, i) == (Squeeze1(c, i) % BASE) + (Squeeze1(c, i - 1) \div BASE)
Squeeze3(c, i) == (Squeeze2(c, i) % BASE) + (Squeeze2(c, i - 1) \div BASE)

Columns(c) ==
  Bind(c \o << >>, LAMBDA t :
    Ripple([i \in 1..(Len(t) + 3) |-> Squeeze3(t, i)]))

MagAdd(a, b) ==
  Bind(<<a, b>>, LAMBDA t :
    Ripple([i \in 1..Max(Len(t[1]), Len(t[2])) |-> Limb(t[1], i) + Limb(t[2], i)]))

\* a - b for a >= b
MagSub(a, b) ==
  Bind(<<a, b>>, LAMBDA t :
    Unborrow([i \in 1..Max(Len(t[1]), Len(t[2])) |-> Limb(t[1], i) - Limb(t[2], i)]))

MagCmp(a, b) ==
  Bind(<<a, b>>, LAMBDA t :
    IF Len(t[1]) < Len(t[2]) THEN -1
    ELSE IF Len(t[1]) > Len(t[2]) THEN 1
    ELSE LET df == {i \in 1..Len(t[1]) : t[1][i] # t[2][i]}
         IN  IF df = {} THEN 0
             ELSE Bind(CHOOSE i \in df : \A j \in df : j <= i, LAMBDA m :
                    IF t[1][m] < t[2][m] THEN -1 ELSE 1))

\* a * k for 0 <= k < 200000
MagMulSmall(a, k) ==
  Bind(<<a, k>>, LAMBDA t : Columns([i \in 1..Len(t[1]) |-> t[1][i] * t[2]]))

\* sum of a[i] * b[k + 1 - i] for i in lo..hi
RECURSIVE ColSum(_, _, _, _, _)
ColSum(a, b, k, lo, hi) ==
  IF lo > hi THEN 0
  ELSE IF lo = hi THEN a[lo] * Limb(b, k + 1 - lo)
  ELSE ColSum(a, b, k, lo, (lo + hi) \div 2)
       + ColSum(a, b, k, (lo + hi) \div 2 + 1, hi)

\* a * b + c
MagMulAdd(a, b, c) ==
  Bind(<<a, b, c>>, LAMBDA t :
    Columns([k \in 1..Max(Len(t[1]) + Len(t[2]), Len(t[3])) |->
               ColSum(t[1], t[2], k, Max(1, k + 1 - Len(t[2])), Min(k, Len(t[1])))
               + Limb(t[3], k)]))

MagMul(a, b) == MagMulAdd(a, b, << >>)

MagShl(a, n) == Bind(a, LAMBDA t : IF t = << >> THEN t ELSE [i \in 1..n |-> 0] \o t)
MagShr(a, n) == Bind(a, LAMBDA t : IF Len(t) <= n THEN << >> ELSE SubSeq(t, n + 1, Len(t)))

\* the magnitude of a native integer 0 <= v < 10^12
MagOfInt(v) == Trim(<<v % BASE, (v \div BASE) % BASE, v \div (BASE * BASE)>>)

\* Newton iteration for floor(BASE^K / b): r <- r + r * (BASE^K - b*r) / BASE^K
NewtonStep(b, K, r) ==
  Bind(<<MagMul(b, r), MagShl(<<1>>, K)>>, LAMBDA t :
    IF MagCmp(t[1], t[2]) <= 0
      THEN MagAdd(r, MagShr(MagMul(r, MagSub(t[2], t[1])), K))
      ELSE MagSub(r, MagAdd(MagShr(MagMul(r, MagSub(t[1], t[2])), K), <<1>>)))

NewtonSteps == 6

RECURSIVE Newton(_, _, _, _)
Newton(b, K, r, n) ==
  IF n = 0 THEN r
  ELSE Bind(<<NewtonStep(b, K, r), n - 1>>, LAMBDA t : Newton(b, K, t[1], t[2]))

\* first guess of BASE^K / b from the two leading limbs of b
Reciprocal0(b, K) ==
  LET nb == Len(b)
      lead == b[nb] * BASE + Limb(b, nb - 1)
  IN  MagShl(MagOfInt((2000000000 \div lead) * 500), K - nb - 1)

\* floor(a / b) for b # 0
MagDiv(a, b) ==
  Bind(<<a, b, Max(Len(a), Len(b)) + 2>>, LAMBDA t :
    IF MagCmp(t[1], t[2]) < 0 THEN << >>
    ELSE Bind(Newton(t[2], t[3], Reciprocal0(t[2], t[3]), NewtonSteps), LAMBDA r :
         Bind(MagShr(MagMul(t[1], r), t[3]), LAMBDA q :
           CHOOSE c \in {MagAdd(q, <<1>>), q,
                         IF q = << >> THEN q ELSE MagSub(q, <<1>>)} :
             /\ MagCmp(MagMul(c, t[2]), t[1]) <= 0
             /\ MagCmp(MagMul(MagAdd(c, <<1>>), t[2]), t[1]) > 0)))

\* ------------------------------------------------------------------------
\* Signed fixed-point numbers [neg, mag], value = (-1)^neg * mag * 10^-20.
\* ------------------------------------------------------------------------
Mk(neg, mag) == Bind(mag, LAMBDA t : [neg |-> neg /\ t # << >>, mag |-> t])

Zero == Mk(FALSE, << >>)
IsZero(a) == a.mag = << >>
Neg(a) == Bind(a, LAMBDA t : Mk(~t.neg, t.mag))
Abs(a) == Bind(a, LAMBDA t : Mk(FALSE, t.mag))

AddV(a, b) ==
  IF a.neg = b.neg THEN Mk(a.neg, MagAdd(a.mag, b.mag))
  ELSE IF MagCmp(a.mag, b.mag) >= 0 THEN Mk(a.neg, MagSub(a.mag, b.mag))
  ELSE Mk(b.neg, MagSub(b.mag, a.mag))

Add(a, b) == Bind(<<a, b>>, LAMBDA t : AddV(t[1], t[2]))

Sub(a, b) == Add(a, Neg(b))

CmpV(a, b) ==
  IF a.neg /\ ~b.neg THEN -1
  ELSE IF ~a.neg /\ b.neg THEN 1
  ELSE IF a.neg THEN MagCmp(b.mag, a.mag)
  ELSE MagCmp(a.mag, b.mag)

Cmp(a, b) == Bind(<<a, b>>, LAMBDA t : CmpV(t[1], t[2]))

Lt(a, b) == Cmp(a, b) < 0
Le(a, b) == Cmp(a, b) <= 0
FMax(a, b) == Bind(<<a, b>>, LAMBDA t : IF Le(t[2], t[1]) THEN t[1] ELSE t[2])
FMin(a, b) == Bind(<<a, b>>, LAMBDA t : IF Le(t[1], t[2]) THEN t[1] ELSE t[2])

HalfUnit == [i \in 1..FRAC |-> IF i = FRAC THEN BASE \div 2 ELSE 0]

\* product, rounded to the nearest unit
Mul(a, b) ==
  Bind(<<a, b>>, LAMBDA t :
    Mk(t[1].neg # t[2].neg, MagShr(MagMulAdd(t[1].mag, t[2].mag, HalfUnit), FRAC)))

\* quotient, rounded to the nearest unit (b # 0)
Div(a, b) ==
  Bind(<<a, b>>, LAMBDA t :
    Mk(t[1].neg # t[2].neg,
       MagDiv(MagAdd(MagMulSmall(MagShl(t[1].mag, FRAC), 2), t[2].mag),
              MagMulSmall(t[2].mag, 2))))

\* decimal literal: n + 0.f1 f2 ... (groups of four decimal digits)
Fx(n, f) ==
  Mk(FALSE, Trim([i \in 1..(FRAC + 1) |->
       IF i = FRAC + 1 THEN n ELSE Limb(f, FRAC + 1 - i)]))

FromInt(n) == IF n < 0 THEN Neg(Fx(-n, << >>)) ELSE Fx(n, << >>)

One == Fx(1, << >>)

\* integer part of a magnitude below 10^8 units
IntPart(mag) == Limb(mag, FRAC + 1) + BASE * Limb(mag, FRAC + 2)

\* ------------------------------------------------------------------------
\* 10 ** z  (the float64 power of src/Ant.py line 83)
\* ------------------------------------------------------------------------
LN10 == Fx(2, <<3025, 8509, 2994, 456, 8402>>)

\* e^v = sum of v^k / k!, by Horner's rule on the coefficients 1/k!
InvFact ==
  <<Fx(1, << >>),
    Fx(0, <<5000>>),
    Fx(0, <<1666, 6666, 6666, 6666, 6667>>),
    Fx(0, <<416, 6666, 6666, 6666, 6667>>),
    Fx(0, <<83, 3333, 3333, 3333, 3333>>),
    Fx(0, <<13, 8888, 8888, 8888, 8889>>),
    Fx(0, <<1, 9841, 2698, 4126, 9841>>),
    Fx(0, <<0, 2480, 1587, 3015, 8730>>),
    Fx(0, <<0, 275, 5731, 9223, 9859>>),
    Fx(0, <<0, 27, 5573, 1922, 3986>>)>>

ExpTerms == 10
ExpHalvings == 8
InvTwoPowHalvings == Fx(0, <<39, 625>>)

RECURSIVE ExpHorner(_, _, _)
ExpHorner(v, k, s) ==
  IF k = 0 THEN Add(One, Mul(v, s))
  ELSE Bind(<<Add(InvFact[k], Mul(v, s)), k - 1>>, LAMBDA t : ExpHorner(v, t[2], t[1]))

RECURSIVE SquareN(_, _)
SquareN(s, n) ==
  IF n = 0 THEN s ELSE Bind(<<Mul(s, s), n - 1>>, LAMBDA t : SquareN(t[1], t[2]))

\* e^w for 0 <= w < ln 10
ExpSmall(w) ==
  Bind(Mul(w, InvTwoPowHalvings), LAMBDA v :
    Bind(ExpHorner(v, ExpTerms - 1, InvFact[ExpTerms]), LAMBDA h :
      SquareN(h, ExpHalvings)))

\* float64 results: a finite number m * 10^e (m = 0, or 1 <= m < 10), an
\* infinity, or a raised exception.
FltNum(m, e) == Bind(m, LAMBDA t : [tag |-> "num", m |-> t, e |-> e])
FltZero == FltNum(Zero, 0)
FltInf == [tag |-> "inf", m |-> Zero, e |-> 0]
FltErr(name) == [tag |-> name, m |-> Zero, e |-> 0]

\* log10 of the largest finite float64 and of half the smallest subnormal
Log10DblMax == Fx(308, <<2547, 1555, 9916, 7500>>)
Log10DblTiny == Neg(Fx(323, <<6072, 4534>>))

\* floor of z for |z| < 10^8
Floor(z) ==
  Bind(z, LAMBDA t :
    LET n == IntPart(t.mag)
        whole == \A i \in 1..FRAC : Limb(t.mag, i) = 0
    IN  IF ~t.neg THEN n ELSE IF whole THEN -n ELSE -n - 1)

\* 10 ** z; np tells whether the operands are numpy float64 (overflow gives
\* inf) or Python floats (overflow raises OverflowError).
Pow10(z, np) ==
  Bind(z, LAMBDA t :
    IF Lt(Log10DblMax, t) THEN (IF np THEN FltInf ELSE FltErr("OverflowError"))
    ELSE IF Lt(t, Log10DblTiny) THEN FltZero
    ELSE Bind(Floor(t), LAMBDA e :
           FltNum(ExpSmall(Mul(Sub(t, FromInt(e)), LN10)), e)))

TenTo(n) == IF n = 0 THEN 1 ELSE IF n = 1 THEN 10 ELSE IF n = 2 THEN 100 ELSE 1000

\* mag * 10^n and floor(mag / 10^n)
MagMulPow10(mag, n) == MagShl(MagMulSmall(mag, TenTo(n % 4)), n \div 4)
MagDivPow10(mag, n) ==
  MagShr(MagMulSmall(mag, TenTo((4 - (n % 4)) % 4)), (n + 3) \div 4)

\* the fixed-point value of a finite float
ToFix(r) ==
  Bind(r, LAMBDA t :
    IF t.tag # "num" THEN CHOOSE v \in {} : TRUE   \* outside the model
    ELSE IF t.e >= 0 THEN Mk(FALSE, MagMulPow10(t.m.mag, t.e))
    ELSE Mk(FALSE, MagDivPow10(t.m.mag, -t.e)))

\* round half to even at nd decimal places (Python round(v, nd))
\* round toward zero instead of to the nearest even (a truncating format)
round_down(v, nd) ==
  Bind(<<v, MagDivPow10(v.mag, 4 * FRAC - nd)>>, LAMBDA t :
    Mk(t[1].neg, MagMulPow10(t[2], 4 * FRAC - nd)))

round(v, nd) ==
  Bind(<<v, MagDivPow10(v.mag, 4 * FRAC - nd)>>, LAMBDA t :
    Bind(<<MagMulSmall(MagSub(t[1].mag, MagMulPow10(t[2], 4 * FRAC - nd)), 2),
           MagMulPow10(<<1>>, 4 * FRAC - nd)>>, LAMBDA h :
      LET c == MagCmp(h[1], h[2])
          up == c > 0 \/ (c = 0 /\ Limb(t[2], 1) % 2 = 1)
      IN  Mk(t[1].neg,
             MagMulPow10(IF up THEN MagAdd(t[2], <<1>>) ELSE t[2], 4 * FRAC - nd))))

\* ------------------------------------------------------------------------
\* src/Ant.py
\* ------------------------------------------------------------------------
VARIABLES
  antoine_constants,  \* the module-level table of Antoine constants
  P_total,            \* the module-level total pressure, mmHg
  x_vals,             \* the liquid fractions of the sweep
  T_vals, y_vals,     \* the solved temperatures and vapour fractions
  table_data,         \* the rows (x, y, T) of the displayed table
  i,                  \* number of samples the loop has finished
  pc,                 \* "loop", "fsolve" or "done" ("antoine" for a direct call)
  sol,                \* the state of the root-finder while pc = "fsolve"
  call                \* arguments and result of a direct call of antoine_eq

vars ==
  <<antoine_constants, P_total, x_vals, T_vals, y_vals, table_data, i, pc, sol, call>>

\* def antoine_eq(T, A, B, C): return 10**(A - B / (C + T))
\* sign slip in the denominator: C - T for C + T
antoine_eq_minus(T, A, B, C, np) ==
  Bind(Sub(C, T), LAMBDA d :
    IF IsZero(d)
      THEN IF np THEN FltZero ELSE FltErr("ZeroDivisionError")
      ELSE Pow10(Sub(A, Div(B, d)), np))

\* 10 ** (A - B / (C + T))
antoine_eq(T, A, B, C, np) ==
  Bind(Add(C, T), LAMBDA d :
    IF IsZero(d)
      THEN IF np THEN FltZero            \* B / 0.0 = inf, 10 ** -inf = 0.0
           ELSE FltErr("ZeroDivisionError")
      ELSE Pow10(Sub(A, Div(B, d)), np))

Psat(consts, T, name) ==
  ToFix(antoine_eq(T, consts[name].A, consts[name].B, consts[name].C, TRUE))

\* the two liquid fractions exchanged: x_octane on heptane's pressure
func_swapped(consts, P, x_heptane, T) ==
  Bind(<<Psat(consts, T, "heptane"), Psat(consts, T, "octane"), Sub(One, x_heptane)>>,
       LAMBDA t : Sub(Add(Mul(t[3], t[1]), Mul(x_heptane, t[2])), P))

\* heptane's pressure used for both components
func_heptane_only(consts, P, x_heptane, T) ==
  Bind(<<Psat(consts, T, "heptane"), Sub(One, x_heptane)>>,
       LAMBDA t : Sub(Add(Mul(x_heptane, t[1]), Mul(t[2], t[1])), P))

\* the residual func(T) of bubble_point_temp(x_heptane)
func(consts, P, x_heptane, T) ==
  Bind(<<Psat(consts, T, "heptane"), Psat(consts, T, "octane"), Sub(One, x_heptane)>>,
       LAMBDA t : Sub(Add(Mul(x_heptane, t[1]), Mul(t[3], t[2])), P))

T_guess == Fx(100, << >>)

\* the endpoint left out: num steps of (stop - start) / num
linspace_noend(start, stop, num) ==
  Bind(Div(Sub(stop, start), FromInt(num)), LAMBDA step :
    [k \in 1..num |-> Add(Mul(FromInt(k - 1), step), start)] \o << >>)

\* np.linspace(start, stop, num)
linspace(start, stop, num) ==
  Bind(Div(Sub(stop, start), FromInt(num - 1)), LAMBDA step :
    [k \in 1..num |->
       IF k = num THEN stop ELSE Add(Mul(FromInt(k - 1), step), start)] \o << >>)

NumSamples == 21

\* ------------------------------------------------------------------------
\* scipy.optimize.fsolve(func, T_guess): MINPACK hybrd for one unknown, with
\* fsolve's defaults (xtol 1.49012e-08, factor 100, maxfev 200*(n+1),
\* epsfcn = machine epsilon, diag from the first Jacobian).
\* ------------------------------------------------------------------------
\* a tolerance of 1e-2 passed for 1.49012e-08
xtol_loose == Fx(0, <<100>>)

xtol == Fx(0, <<0, 1, 4901, 2000>>)
epsmch == Fx(0, <<0, 0, 0, 2, 2204>>)
sqrt_epsmch == Fx(0, <<0, 1, 4901, 1611, 9385>>)
factor == Fx(100, << >>)
maxfev == 400
p1 == Fx(0, <<1000>>)
p5 == Fx(0, <<5000>>)
p001 == Fx(0, <<10>>)
p0001 == Fx(0, <<1>>)

Sq(a) == Bind(a, LAMBDA t : Mul(t, t))

NoSol ==
  [x |-> Zero, fvec |-> Zero, fjac |-> Zero, diag |-> Zero, delta |-> Zero,
   xnorm |-> Zero, fnorm |-> Zero, iter |-> 0, ncsuc |-> 0, ncfail |-> 0,
   nslow1 |-> 0, nslow2 |-> 0, nfev |-> 0, jeval |-> FALSE, info |-> 0,
   at |-> "none"]

\* entry: evaluate the function at the starting point, reset the counters
hybrd_start(consts, P, x_heptane, x0) ==
  Bind(func(consts, P, x_heptane, x0), LAMBDA f0 :
    [NoSol EXCEPT !.x = x0, !.fvec = f0, !.fnorm = Abs(f0), !.nfev = 1,
                  !.iter = 1, !.at = "jacobian"])

\* outer loop: forward-difference Jacobian (fdjac1); on the first iteration
\* the scale diag and the step bound delta are set from it
hybrd_jacobian(consts, P, x_heptane, s) ==
  Bind(IF IsZero(s.x) THEN sqrt_epsmch ELSE Mul(sqrt_epsmch, Abs(s.x)), LAMBDA h :
  Bind(Div(Sub(func(consts, P, x_heptane, Add(s.x, h)), s.fvec), h), LAMBDA jac :
  Bind(IF s.iter # 1 THEN s.diag ELSE IF IsZero(jac) THEN One ELSE Abs(jac), LAMBDA d0 :
  Bind(IF s.iter # 1 THEN s.xnorm ELSE Mul(d0, Abs(s.x)), LAMBDA xn :
    [s EXCEPT !.fjac = jac,
              !.nfev = s.nfev + 1,
              !.jeval = TRUE,
              !.xnorm = xn,
              !.delta = IF s.iter # 1 THEN s.delta
                        ELSE IF IsZero(xn) THEN factor ELSE Mul(factor, xn),
              !.diag = FMax(d0, Abs(jac)),
              !.at = "step"]))))

\* dogleg for one unknown: the Newton step -fvec/fjac, cut back to the step
\* bound delta (in the scaled norm) when it is longer
dogleg(s) ==
  IF IsZero(s.fvec) THEN Zero
  ELSE Bind(Mk(~(s.fvec.neg # s.fjac.neg), Div(s.delta, s.diag).mag), LAMBDA cut :
         IF IsZero(s.fjac) THEN cut
         ELSE Bind(Neg(Div(s.fvec, s.fjac)), LAMBDA gn :
                IF Le(Mul(s.diag, Abs(gn)), s.delta) THEN gn ELSE cut))

\* the step-bound update of one inner iteration
\* t = <<ratio, pnorm, delta after the first-iteration adjustment>>
NewDelta(s, t) ==
  IF Lt(t[1], p1) THEN Mul(p5, t[3])
  ELSE IF Le(Abs(Sub(t[1], One)), p1) THEN Div(t[2], p5)
  ELSE IF Le(p5, t[1]) \/ s.ncsuc + 1 > 1 THEN FMax(t[3], Div(t[2], p5))
  ELSE t[3]

\* the termination tests, in the order of the code (a later test overrides);
\* an exact zero of the function ends the run at once: hybrd would only shrink
\* delta on null steps from there and return the same x
Termination(s, pnorm) ==
  IF Le(s.delta, Mul(xtol, s.xnorm)) \/ IsZero(s.fnorm) THEN 1
  ELSE IF s.nslow1 = 10 THEN 5
  ELSE IF s.nslow2 = 5 THEN 4
  ELSE IF Le(Mul(p1, FMax(Mul(p1, s.delta), pnorm)), Mul(epsmch, s.xnorm)) THEN 3
  ELSE IF s.nfev >= maxfev THEN 2
  ELSE 0

\* inner loop: one trial step x + p, its acceptance test, the update of the
\* step bound and of the counters, the termination tests and the rank-one
\* (secant) update of the Jacobian
hybrd_step(consts, P, x_heptane, s) ==
  Bind(dogleg(s), LAMBDA p :
  Bind(<<Add(s.x, p), Mul(s.diag, Abs(p))>>, LAMBDA xp :
  Bind(<<func(consts, P, x_heptane, xp[1]), IF s.iter = 1 THEN FMin(s.delta, xp[2]) ELSE s.delta,
         Abs(Add(s.fvec, Mul(s.fjac, p)))>>, LAMBDA e :
  Bind(<<IF Lt(Abs(e[1]), s.fnorm) THEN Sub(One, Sq(Div(Abs(e[1]), s.fnorm)))
           ELSE Neg(One),
         IF Lt(e[3], s.fnorm) THEN Sub(One, Sq(Div(e[3], s.fnorm))) ELSE Zero>>,
       LAMBDA red :
  Bind(IF Lt(Zero, red[2]) THEN Div(red[1], red[2]) ELSE Zero, LAMBDA ratio :
  Bind([s EXCEPT
          !.delta = NewDelta(s, <<ratio, xp[2], e[2]>>),
          !.ncsuc = IF Lt(ratio, p1) THEN 0 ELSE s.ncsuc + 1,
          !.ncfail = IF Lt(ratio, p1) THEN s.ncfail + 1 ELSE 0,
          !.x = IF Lt(ratio, p0001) THEN s.x ELSE xp[1],
          !.fvec = IF Lt(ratio, p0001) THEN s.fvec ELSE e[1],
          !.xnorm = IF Lt(ratio, p0001) THEN s.xnorm ELSE Mul(s.diag, Abs(xp[1])),
          !.fnorm = IF Lt(ratio, p0001) THEN s.fnorm ELSE Abs(e[1]),
          !.iter = IF Lt(ratio, p0001) THEN s.iter ELSE s.iter + 1,
          !.nslow1 = IF Le(p001, red[1]) THEN 0 ELSE s.nslow1 + 1,
          !.nslow2 = IF Le(p1, red[1]) THEN 0
                     ELSE IF s.jeval THEN s.nslow2 + 1 ELSE s.nslow2,
          !.nfev = s.nfev + 1], LAMBDA u :
  Bind(Termination(u, xp[2]), LAMBDA info :
    IF info # 0 THEN [u EXCEPT !.info = info, !.at = "return"]
    ELSE IF u.ncfail = 2 THEN [u EXCEPT !.at = "jacobian"]
    ELSE [u EXCEPT !.fjac = Div(Sub(e[1], s.fvec), p), !.jeval = FALSE])))))))

\* bubble_point_temp(x_heptane) as a function: fsolve run to its return
RECURSIVE hybrd_run(_, _, _, _)
hybrd_run(consts, P, x_heptane, s) ==
  IF s.at = "return" THEN s.x
  ELSE Bind(IF s.at = "jacobian"
              THEN hybrd_jacobian(consts, P, x_heptane, s)
              ELSE hybrd_step(consts, P, x_heptane, s),
            LAMBDA t : hybrd_run(consts, P, x_heptane, t))

bubble_point_temp(consts, P, x_heptane) ==
  hybrd_run(consts, P, x_heptane, hybrd_start(consts, P, x_heptane, T_guess))

\* octane's pressure taken for heptane's
vapor_fraction_octane(consts, P, x_heptane, T) ==
  Div(Mul(x_heptane, Psat(consts, T, "octane")), P)

\* y = (x * P_heptane) / P_total with P_heptane recomputed at T
vapor_fraction(consts, P, x_heptane, T) ==
  Div(Mul(x_heptane, Psat(consts, T, "heptane")), P)

\* ------------------------------------------------------------------------
\* The module body of src/Ant.py, lines 77-107
\* ------------------------------------------------------------------------
NoCall == [T |-> Zero, name |-> "heptane", np |-> FALSE, done |-> FALSE, out |-> FltZero]

\* the values given to antoine_constants and P_total at lines 77-85
antoine_constants_0 ==
  [heptane |-> [A |-> Fx(6, <<8930>>), B |-> Fx(1260, << >>), C |-> Fx(216, << >>)],
   octane  |-> [A |-> Fx(6, <<9094>>), B |-> Fx(1351, << >>), C |-> Fx(217, << >>)]]

P_total_0 == Fx(760, << >>)

InitWith(num) ==
  /\ antoine_constants = antoine_constants_0
  /\ P_total = P_total_0
  /\ x_vals = linspace(Zero, One, num)
  /\ T_vals = << >>
  /\ y_vals = << >>
  /\ table_data = << >>
  /\ i = 0
  /\ pc = "loop"
  /\ sol = NoSol
  /\ call = NoCall

Init == InitWith(NumSamples)

\* the sample the loop is working on
x == x_vals[i + 1]

\* warm start: the previous sample's temperature taken as the guess
Call_warm ==
  /\ pc = "loop"
  /\ i < Len(x_vals)
  /\ sol' = hybrd_start(antoine_constants, P_total, x,
                        IF i = 0 THEN T_guess ELSE T_vals[i])
  /\ pc' = "fsolve"
  /\ UNCHANGED <<antoine_constants, P_total, x_vals, T_vals, y_vals, table_data, i, call>>

\* T = bubble_point_temp(x): fsolve is entered with the guess T_guess
Call ==
  /\ pc = "loop"
  /\ i < Len(x_vals)
  /\ sol' = hybrd_start(antoine_constants, P_total, x, T_guess)
  /\ pc' = "fsolve"
  /\ UNCHANGED <<antoine_constants, P_total, x_vals, T_vals, y_vals, table_data, i, call>>

Jacobian ==
  /\ pc = "fsolve"
  /\ sol.at = "jacobian"
  /\ sol' = hybrd_jacobian(antoine_constants, P_total, x, sol)
  /\ UNCHANGED <<antoine_constants, P_total, x_vals, T_vals, y_vals, table_data, i, pc, call>>

Step ==
  /\ pc = "fsolve"
  /\ sol.at = "step"
  /\ sol' = hybrd_step(antoine_constants, P_total, x, sol)
  /\ UNCHANGED <<antoine_constants, P_total, x_vals, T_vals, y_vals, table_data, i, pc, call>>

\* the newest result put in front of the lists
Return_prepend ==
  /\ pc = "fsolve"
  /\ sol.at = "return"
  /\ T_vals' = <<sol.x>> \o T_vals
  /\ y_vals' = <<vapor_fraction(antoine_constants, P_total, x, sol.x)>> \o y_vals
  /\ table_data' = <<<<round(x, 3), round(y_vals'[1], 3), round(sol.x, 2)>>>> \o table_data
  /\ i' = i + 1
  /\ pc' = "loop"
  /\ sol' = NoSol
  /\ UNCHANGED <<antoine_constants, P_total, x_vals, call>>

\* a sample whose solve did not end with info = 1 is skipped
Return_checked ==
  /\ pc = "fsolve"
  /\ sol.at = "return"
  /\ IF sol.info = 1
       THEN /\ T_vals' = Append(T_vals, sol.x)
            /\ y_vals' = Append(y_vals, vapor_fraction(antoine_constants, P_total, x, sol.x))
            /\ table_data' = Append(table_data,
                                    <<round(x, 3), round(y_vals'[Len(y_vals) + 1], 3),
                                      round(sol.x, 2)>>)
       ELSE UNCHANGED <<T_vals, y_vals, table_data>>
  /\ i' = i + 1
  /\ pc' = "loop"
  /\ sol' = NoSol
  /\ UNCHANGED <<antoine_constants, P_total, x_vals, call>>

\* fsolve(...)[0] is returned whatever info says; lines 103-107 follow
Return ==
  /\ pc = "fsolve"
  /\ sol.at = "return"
  /\ T_vals' = Append(T_vals, sol.x)
  /\ y_vals' = Append(y_vals, vapor_fraction(antoine_constants, P_total, x, sol.x))
  /\ table_data' = Append(table_data,
                          <<round(x, 3), round(y_vals'[i + 1], 3), round(sol.x, 2)>>)
  /\ i' = i + 1
  /\ pc' = "loop"
  /\ sol' = NoSol
  /\ UNCHANGED <<antoine_constants, P_total, x_vals, call>>

\* the loop is exhausted; the rest of the script only renders the results
Finish ==
  /\ pc = "loop"
  /\ i = Len(x_vals)
  /\ pc' = "done"
  /\ UNCHANGED <<antoine_constants, P_total, x_vals, T_vals, y_vals, table_data, i, sol, call>>

Next == Call \/ Jacobian \/ Step \/ Return \/ Finish

Spec == Init /\ [][Next]_vars

\* ------------------------------------------------------------------------
\* The loop body around a root-finder that may return anything: fsolve
\* returns its last iterate with any termination code info (1 converged,
\* 2..5 not converged), and the caller never sees info.
\* ------------------------------------------------------------------------
AnySamples == 3

AnyReturns ==
  {<<Fx(98, <<432, 3527>>), 1>>, <<Fx(118, <<3533, 6301>>), 1>>,
   <<Fx(300, << >>), 2>>, <<Zero, 4>>, <<Neg(Fx(200, << >>)), 5>>}

CallAny ==
  /\ pc = "loop"
  /\ i < Len(x_vals)
  /\ \E r \in AnyReturns :
       sol' = [NoSol EXCEPT !.x = r[1], !.info = r[2], !.at = "return"]
  /\ pc' = "fsolve"
  /\ UNCHANGED <<antoine_constants, P_total, x_vals, T_vals, y_vals, table_data, i, call>>

NextAny == CallAny \/ Return \/ Finish

SpecAny == InitWith(AnySamples) /\ [][NextAny]_vars

\* ------------------------------------------------------------------------
\* antoine_eq called directly, with Python floats (np = FALSE) or numpy
\* float64 values (np = TRUE)
\* ------------------------------------------------------------------------
Temps ==
  {FromInt(n) : n \in {-1000, -230, -221, -220, -218, -217, -216, -215, -214,
                       -213, -212, -211, -210, -200, -100, -50, 0, 25, 50, 98,
                       100, 118, 125, 150, 200, 216, 217, 300, 1000}}
  \cup {Neg(Fx(216, <<5000>>)), Neg(Fx(215, <<9999>>)), Fx(98, <<432, 3527>>)}

InitAntoine ==
  /\ antoine_constants = antoine_constants_0
  /\ P_total = P_total_0
  /\ x_vals = << >>
  /\ T_vals = << >>
  /\ y_vals = << >>
  /\ table_data = << >>
  /\ i = 0
  /\ pc = "antoine"
  /\ sol = NoSol
  /\ call \in {[NoCall EXCEPT !.T = t, !.name = n, !.np = b] :
                 t \in Temps, n \in {"heptane", "octane"}, b \in BOOLEAN}

Apply ==
  /\ pc = "antoine"
  /\ ~call.done
  /\ call' = [call EXCEPT
                !.done = TRUE,
                !.out = antoine_eq(call.T, antoine_constants[call.name].A,
                                   antoine_constants[call.name].B,
                                   antoine_constants[call.name].C, call.np)]
  /\ UNCHANGED <<antoine_constants, P_total, x_vals, T_vals, y_vals, table_data, i, pc, sol>>

NextAntoine == Apply

SpecAntoine == InitAntoine /\ [][NextAntoine]_vars

\* ------------------------------------------------------------------------
\* Properties
\* ------------------------------------------------------------------------
Near(a, b, tol) == Le(Abs(Sub(a, b)), tol)

Tol == Fx(0, <<0, 100>>)               \* 1e-6 mmHg
TinyTol == Fx(0, <<0, 0, 1000>>)       \* 1e-9
HalfCent == Fx(0, <<50>>)              \* 0.005, half a unit of round(T, 2)
HalfMilli == Fx(0, <<5>>)              \* 0.0005, half a unit of round(x, 3)
RowTol == Fx(0, <<1200>>)              \* 0.12 mmHg
Half == Fx(0, <<5000>>)
Spacing == Fx(0, <<500>>)              \* 0.05

\* the residual of sample k at the stored full-precision temperature
residual(k) == func(antoine_constants, P_total, x_vals[k], T_vals[k])

\* the residual recomputed from the x and T stored in row k of table_data
row_residual(k) == func(antoine_constants, P_total, table_data[k][1], table_data[k][3])

\* C1: when the sweep has finished, the temperature stored by
\* bubble_point_temp for each of the 21 samples x satisfies
\* |x*Psat_heptane(T) + (1 - x)*Psat_octane(T) - 760| <= 1e-6.
C1_ResidualWithinTolerance ==
  pc = "done" => \A k \in 1..Len(T_vals) : Le(Abs(residual(k)), Tol)

C1_SweepSolved == pc = "done" /\ Len(T_vals) = NumSamples

\* C2 as stated: at x = 0 the solved T is octane's boiling point, about 125.6,
\* with y = 0; at x = 1 it is heptane's, about 98.4, with y = 1.
C2_EndpointsAsStated ==
  /\ Len(T_vals) >= 1 =>
       /\ Near(Psat(antoine_constants, T_vals[1], "octane"), P_total, Tol)
       /\ Near(T_vals[1], Fx(125, <<6000>>), Fx(0, <<1000>>))
       /\ y_vals[1] = Zero
  /\ Len(T_vals) = NumSamples =>
       /\ Near(Psat(antoine_constants, T_vals[NumSamples], "heptane"), P_total, Tol)
       /\ Near(T_vals[NumSamples], Fx(98, <<4000>>), Fx(0, <<1000>>))
       /\ Near(y_vals[NumSamples], One, TinyTol)

\* C2: at x = 0 the solved T makes Psat_octane(T) = 760 within 1e-6 and is
\* 118.35 to two decimals, with y exactly 0; at x = 1 the solved T makes
\* Psat_heptane(T) = 760 within 1e-6 and is 98.04 to two decimals, with y
\* equal to 1 within 1e-9.
C2_Endpoints ==
  /\ Len(T_vals) >= 1 =>
       /\ x_vals[1] = Zero
       /\ Near(Psat(antoine_constants, T_vals[1], "octane"), P_total, Tol)
       /\ Near(T_vals[1], Fx(118, <<3500>>), HalfCent)
       /\ y_vals[1] = Zero
  /\ Len(T_vals) = NumSamples =>
       /\ x_vals[NumSamples] = One
       /\ Near(Psat(antoine_constants, T_vals[NumSamples], "heptane"), P_total, Tol)
       /\ Near(T_vals[NumSamples], Fx(98, <<400>>), HalfCent)
       /\ Near(y_vals[NumSamples], One, TinyTol)

C2_BothEndpointsSolved ==
  /\ Len(T_vals) = NumSamples
  /\ x_vals[1] = Zero
  /\ x_vals[NumSamples] = One
  /\ Lt(T_vals[NumSamples], T_vals[1])

\* C3: the solved temperatures are non-increasing along the sweep: for every
\* two consecutive samples x_k < x_(k+1) already solved, T_(k+1) <= T_k.
C3_TemperatureNonIncreasing ==
  \A k \in 1..(Len(T_vals) - 1) :
    Lt(x_vals[k], x_vals[k + 1]) => Le(T_vals[k + 1], T_vals[k])

C3_AllPairsPresent == Len(T_vals) = NumSamples /\ Lt(x_vals[1], x_vals[2])

\* C4 as stated: for every sample x <= y <= 1, and y > 0.5 at x = 0.5.
C4_VaporFractionAsStated ==
  \A k \in 1..Len(y_vals) :
    /\ Le(x_vals[k], y_vals[k])
    /\ Le(y_vals[k], One)
    /\ x_vals[k] = Half => Lt(Half, y_vals[k])

\* C4: for every sample x <= y and y <= 1 + 1e-9, with y <= 1 for every
\* sample with x < 1 (at x = 1 the positive residual left by the solver puts
\* y just above 1), and y > 0.5 at x = 0.5.
C4_VaporFraction ==
  \A k \in 1..Len(y_vals) :
    /\ Le(x_vals[k], y_vals[k])
    /\ Le(y_vals[k], Add(One, TinyTol))
    /\ Lt(x_vals[k], One) => Le(y_vals[k], One)
    /\ x_vals[k] = Half => Lt(Half, y_vals[k])

C4_AboveOneAtPureHeptane ==
  /\ Len(y_vals) = NumSamples
  /\ x_vals[NumSamples] = One
  /\ Lt(One, y_vals[NumSamples])
  /\ \E k \in 1..NumSamples : x_vals[k] = Half /\ Lt(Half, y_vals[k])

\* C5: x_vals has exactly 21 values, the first is 0, the last is 1, and each
\* value is 0.05 above the one before it (so the sequence is strictly
\* increasing with no duplicate).
C5_Samples ==
  /\ Len(x_vals) = 21
  /\ x_vals[1] = Zero
  /\ x_vals[21] = One
  /\ \A k \in 1..20 :
       /\ Lt(x_vals[k], x_vals[k + 1])
       /\ Sub(x_vals[k + 1], x_vals[k]) = Spacing

C5_SamplesInUse == pc = "fsolve" /\ i = 10 /\ x = Half

\* C6: after k iterations T_vals, y_vals and table_data have k entries each;
\* when the loop has finished that is 21, the length of x_vals, and entry k of
\* each list is derived from x_vals[k] (T_vals[k] solves the residual for
\* x_vals[k], y_vals[k] is the vapor fraction at x_vals[k] and T_vals[k], and
\* row k holds the three values rounded), and the rows are in ascending x.
C6_ParallelSequences ==
  /\ Len(T_vals) = i
  /\ Len(y_vals) = i
  /\ Len(table_data) = i
  /\ i <= Len(x_vals)
  /\ pc = "done" => i = 21 /\ Len(x_vals) = 21
  /\ \A k \in 1..(Len(table_data) - 1) : Lt(table_data[k][1], table_data[k + 1][1])
  /\ pc = "done" =>
       \A k \in 1..Len(T_vals) :
         /\ Le(Abs(residual(k)), Tol)
         /\ y_vals[k] = vapor_fraction(antoine_constants, P_total, x_vals[k], T_vals[k])
         /\ table_data[k] =
              <<round(x_vals[k], 3), round(y_vals[k], 3), round(T_vals[k], 2)>>

C6_LoopFinished ==
  pc = "done" /\ Len(table_data) = Len(x_vals) /\ Len(y_vals) = 21 /\ i = 21

\* C7 as stated: when the sweep has finished, the residual recomputed from
\* the x and T stored in each row of table_data is within 1e-6 of zero.
C7_RowRoundTripAsStated ==
  pc = "done" => \A k \in 1..Len(table_data) : Le(Abs(row_residual(k)), Tol)

\* C7: when the sweep has finished, each row of table_data stores the rounded values round(x, 3),
\* round(y, 3) and round(T, 2), so the stored T is within 0.005 of T_vals[k]
\* and the residual recomputed from the row is within 0.12 of zero; the
\* residual recomputed from the full-precision x_vals[k] and T_vals[k] is
\* within 1e-6 of zero.
C7_RowRoundTrip ==
  pc = "done" =>
    \A k \in 1..Len(table_data) :
      /\ table_data[k][1] = round(x_vals[k], 3)
      /\ table_data[k][3] = round(T_vals[k], 2)
      /\ Near(table_data[k][1], x_vals[k], HalfMilli)
      /\ Near(table_data[k][3], T_vals[k], HalfCent)
      /\ Le(Abs(row_residual(k)), RowTol)
      /\ Le(Abs(residual(k)), Tol)

C7_RoundedRowOffRoot ==
  /\ pc = "done"
  /\ \E k \in 1..Len(table_data) :
       table_data[k][3] # T_vals[k] /\ Lt(Tol, Abs(row_residual(k)))

\* the denominator C + T of the direct call
denominator == Add(antoine_constants[call.name].C, call.T)

\* C8 as stated: every call of antoine_eq returns a strictly positive number
\* and none fails, the call with T = -C included.
C8_AlwaysPositiveAsStated ==
  call.done => call.out.tag = "num" /\ Lt(Zero, call.out.m)

\* C8: a call with C + T >= 5 returns a strictly positive number; a call with
\* T = -C divides by zero: with Python floats it raises ZeroDivisionError,
\* with numpy float64 values it returns 0.0.
C8_PositiveAwayFromPole ==
  call.done =>
    /\ Le(FromInt(5), denominator) => call.out.tag = "num" /\ Lt(Zero, call.out.m)
    /\ IsZero(denominator) =>
         call.out = IF call.np THEN FltZero ELSE FltErr("ZeroDivisionError")

C8_DivisionByZero ==
  call.done /\ IsZero(denominator) /\ ~call.np /\ call.out.tag = "ZeroDivisionError"

\* C9: when the root-finder returns, whatever its temperature and whatever its
\* termination code, the loop appends that temperature to T_vals, appends the
\* y derived from it to y_vals, appends a row and moves to the next sample:
\* nothing is checked and no sample is skipped.
C9_EverySolveAccepted ==
  [][(pc = "fsolve" /\ sol.at = "return") =>
       /\ T_vals' = Append(T_vals, sol.x)
       /\ y_vals' = Append(y_vals, vapor_fraction(antoine_constants, P_total, x, sol.x))
       /\ Len(table_data') = Len(table_data) + 1
       /\ i' = i + 1
       /\ pc' = "loop"]_vars

C9_BadSolveStored ==
  /\ pc = "done"
  /\ \E k \in 1..Len(T_vals) : Lt(T_vals[k], Zero)
  /\ \E k \in 1..Len(y_vals) : Lt(One, y_vals[k])

====
